---- MODULE Spec2Model ----
(***************************************************************************)
(* Model of the CUDA Mandelbrot zoom renderer (src/main.cu).               *)
(*                                                                         *)
(* The program's `double` values are modelled bit-exactly as IEEE-754      *)
(* binary64 numbers (round to nearest, ties to even); because the model    *)
(* checker's integers are 32 bits wide, a 53-bit significand is kept as a  *)
(* little-endian sequence of 15-bit limbs.  Subnormals, infinities and     *)
(* NaN are outside the range of inputs the model draws and are not         *)
(* represented.  Every operation is rounded on its own; where the device   *)
(* compiler fuses a multiplication with an addition the last bit of a      *)
(* result can differ, which no property below depends on: the inputs drawn *)
(* for iterate are computed without rounding, and in hsv_to_rgb, called    *)
(* with s = 100, c is V and m is 0, so that fusing changes nothing.        *)
(***************************************************************************)
EXTENDS Integers, Sequences, FiniteSets, TLC

(***************************************************************************)
(* Natural numbers of arbitrary size: <<>> is 0, limbs are base 2^15,      *)
(* least significant first, no leading (high) zero limb.                   *)
(***************************************************************************)
Base == 32768
LimbBits == 15

\* 2^k for 0 <= k < 15
Pow2(k) == <<1, 2, 4, 8, 16, 32, 64, 128, 256, 512, 1024, 2048, 4096, 8192,
             16384>>[k + 1]

RECURSIVE BNorm(_)
BNorm(a) ==
    IF a = <<>> THEN <<>>
    ELSE IF a[Len(a)] = 0 THEN BNorm(SubSeq(a, 1, Len(a) - 1))
    ELSE a

RECURSIVE BFromInt(_)
BFromInt(n) == IF n = 0 THEN <<>> ELSE <<n % Base>> \o BFromInt(n \div Base)

RECURSIVE BToInt(_)
BToInt(a) == IF a = <<>> THEN 0 ELSE a[1] + Base * BToInt(Tail(a))

BLimb(a, i) == IF i <= Len(a) THEN a[i] ELSE 0

BMax(x, y) == IF x >= y THEN x ELSE y

RECURSIVE BAddC(_, _, _, _)
BAddC(a, b, i, c) ==
    IF i > BMax(Len(a), Len(b))
    THEN IF c = 0 THEN <<>> ELSE <<c>>
    ELSE LET t == BLimb(a, i) + BLimb(b, i) + c
         IN  <<t % Base>> \o BAddC(a, b, i + 1, t \div Base)

BAdd(a, b) == BAddC(a, b, 1, 0)

\* a - b for a >= b
RECURSIVE BSubC(_, _, _, _)
BSubC(a, b, i, c) ==
    IF i > Len(a) THEN <<>>
    ELSE LET t == a[i] - BLimb(b, i) - c
         IN  IF t < 0 THEN <<t + Base>> \o BSubC(a, b, i + 1, 1)
                      ELSE <<t>> \o BSubC(a, b, i + 1, 0)

BSub(a, b) == BNorm(BSubC(a, b, 1, 0))

\* -1, 0, 1 as a < b, a = b, a > b
RECURSIVE BCmpAt(_, _, _)
BCmpAt(a, b, i) ==
    IF i = 0 THEN 0
    ELSE IF a[i] < b[i] THEN -1
    ELSE IF a[i] > b[i] THEN 1
    ELSE BCmpAt(a, b, i - 1)

BCmp(a, b) ==
    IF Len(a) < Len(b) THEN -1
    ELSE IF Len(a) > Len(b) THEN 1
    ELSE BCmpAt(a, b, Len(a))

\* a * d for one limb d < Base
RECURSIVE BMulSmallC(_, _, _, _)
BMulSmallC(a, d, i, c) ==
    IF i > Len(a)
    THEN IF c = 0 THEN <<>> ELSE <<c>>
    ELSE LET t == a[i] * d + c
         IN  <<t % Base>> \o BMulSmallC(a, d, i + 1, t \div Base)

BMulSmall(a, d) == IF d = 0 THEN <<>> ELSE BMulSmallC(a, d, 1, 0)

BShiftLimbs(a, n) == IF a = <<>> THEN <<>> ELSE [i \in 1..n |-> 0] \o a

RECURSIVE BMulAt(_, _, _)
BMulAt(a, b, j) ==
    IF j > Len(b) THEN <<>>
    ELSE BAdd(BShiftLimbs(BMulSmall(a, b[j]), j - 1), BMulAt(a, b, j + 1))

BMul(a, b) == BMulAt(a, b, 1)

\* a * 2^k
BShl(a, k) == BShiftLimbs(BMulSmall(a, Pow2(k % LimbBits)), k \div LimbBits)

\* floor(a / d) for one limb d < Base, from the high limb down
RECURSIVE BDivSmallC(_, _, _, _)
BDivSmallC(a, d, i, r) ==
    IF i = 0 THEN <<>>
    ELSE LET t == r * Base + a[i]
         IN  BDivSmallC(a, d, i - 1, t % d) \o <<t \div d>>

BDivSmall(a, d) == BNorm(BDivSmallC(a, d, Len(a), 0))

\* floor(a / 2^k)
BShr(a, k) ==
    LET n == k \div LimbBits
    IN  IF n >= Len(a) THEN <<>>
        ELSE BDivSmall(SubSeq(a, n + 1, Len(a)), Pow2(k % LimbBits))

\* the number of bits of one limb n, 0 < n < Base
IntBitLen(n) == CHOOSE b \in 1..LimbBits : Pow2(b - 1) <= n /\ n < 2 * Pow2(b - 1)

BBitLen(a) ==
    IF a = <<>> THEN 0 ELSE LimbBits * (Len(a) - 1) + IntBitLen(a[Len(a)])

BOdd(a) == a # <<>> /\ a[1] % 2 = 1

\* The next quotient limb: <<g, r * Base - g * d>> with g = floor(r * Base / d),
\* for r < d and d of exactly 53 bits.  g is bracketed by dividing the leading
\* bits of rb = r * Base by the leading 15 bits of d, rounded either way.
BDivDigitOut(rb, d, g) == <<g, BSub(rb, BMulSmall(d, g))>>

BDivDigitIn(rb, d, lo, hi) ==
    BDivDigitOut(rb, d,
        CHOOSE c \in lo..hi :
            /\ BCmp(BMulSmall(d, c), rb) <= 0
            /\ (c = hi \/ BCmp(BMulSmall(d, c + 1), rb) > 0))

BDivDigitAt(rb, d, rhi, dhi) ==
    BDivDigitIn(rb, d, rhi \div (dhi + 1),
                IF (rhi + 1) \div dhi < Base THEN (rhi + 1) \div dhi ELSE Base - 1)

BDivDigitOf(rb, d) ==
    BDivDigitAt(rb, d, BToInt(BShr(rb, 38)), BToInt(BShr(d, 38)))

BDivDigit(r, d) == BDivDigitOf(BShiftLimbs(r, 1), d)

\* st = <<quotient limbs so far, remainder>>, s the next <<limb, remainder>>
BDivPush(st, s) == <<<<s[1]>> \o st[1], s[2]>>

BDivStep(st, d) == BDivPush(st, BDivDigit(st[2], d))

BDivNorm(st) == <<BNorm(st[1]), st[2]>>

\* <<floor(r * Base^4 / d), (r * Base^4) mod d>> for r < d
BDivFrac(r, d) ==
    BDivNorm(BDivStep(BDivStep(BDivStep(BDivStep(<<<<>>, r>>, d), d), d), d))

\* a mod d for d > 0
RECURSIVE BMod(_, _)
BModAt(a, d, dk, dh) ==
    IF BCmp(a, dk) >= 0 THEN BMod(BSub(a, dk), d) ELSE BMod(BSub(a, dh), d)

BModShift(a, d, k) ==
    BModAt(a, d, BShl(d, k), IF k > 0 THEN BShl(d, k - 1) ELSE d)

BMod(a, d) ==
    IF BCmp(a, d) < 0 THEN a ELSE BModShift(a, d, BBitLen(a) - BBitLen(d))

(***************************************************************************)
(* binary64: the value s * m * 2^e, with m = 0 (and e = 0, s = 1) or       *)
(* 2^52 <= m < 2^53.                                                       *)
(***************************************************************************)
MantBits == 53

FZero == [s |-> 1, m |-> <<>>, e |-> 0]

FIsZero(x) == x.m = <<>>

\* the rounded significand q1 may have reached 2^53
FRoundPack(s, q1, e) ==
    IF BBitLen(q1) > MantBits THEN [s |-> s, m |-> BShr(q1, 1), e |-> e + 1]
    ELSE [s |-> s, m |-> q1, e |-> e]

\* c compares the dropped bits with one half of the last kept place
FRoundUp(s, q, e, c, sticky) ==
    FRoundPack(s, IF c > 0 \/ (c = 0 /\ (sticky \/ BOdd(q))) THEN BAdd(q, <<1>>)
                  ELSE q, e)

FRoundCut(s, n, e, k, q, sticky) ==
    FRoundUp(s, q, e + k, BCmp(BSub(n, BShl(q, k)), BShl(<<1>>, k - 1)), sticky)

FRoundLen(s, n, e, len, sticky) ==
    IF len = 0 THEN FZero
    ELSE IF len <= MantBits
    THEN [s |-> s, m |-> BShl(n, MantBits - len), e |-> e - (MantBits - len)]
    ELSE FRoundCut(s, n, e, len - MantBits, BShr(n, len - MantBits), sticky)

\* s * (n + f) * 2^e rounded to nearest, ties to even, where 0 <= f < 1 and
\* sticky says f > 0 (only passed with n of 55 or more bits)
FRound(s, n, e, sticky) == FRoundLen(s, n, e, BBitLen(n), sticky)

\* (double)n
FromInt(n) == FRound(IF n < 0 THEN -1 ELSE 1, BFromInt(IF n < 0 THEN -n ELSE n),
                     0, FALSE)

FNeg(x) == IF FIsZero(x) THEN x ELSE [x EXCEPT !.s = -x.s]

FAbs(x) == [x EXCEPT !.s = 1]

\* |x| compared with |y|
FCmpMag(x, y) ==
    IF FIsZero(x) THEN (IF FIsZero(y) THEN 0 ELSE -1)
    ELSE IF FIsZero(y) THEN 1
    ELSE IF x.e < y.e THEN -1
    ELSE IF x.e > y.e THEN 1
    ELSE BCmp(x.m, y.m)

FCmp(x, y) ==
    IF FIsZero(x) /\ FIsZero(y) THEN 0
    ELSE IF FIsZero(x) THEN -y.s
    ELSE IF FIsZero(y) THEN x.s
    ELSE IF x.s # y.s THEN x.s
    ELSE x.s * FCmpMag(x, y)

FLt(x, y) == FCmp(x, y) < 0
FLe(x, y) == FCmp(x, y) <= 0

\* the sign and the magnitude of sx * a + sy * b
FAddMag(sx, a, sy, b, c) ==
    IF sx = sy THEN <<sx, BAdd(a, b)>>
    ELSE IF c >= 0 THEN <<sx, BSub(a, b)>>
    ELSE <<sy, BSub(b, a)>>

FAddRound(sm, e) == FRound(sm[1], sm[2], e, FALSE)

FAddAligned(sx, a, sy, b, e) == FAddRound(FAddMag(sx, a, sy, b, BCmp(a, b)), e)

FAddAt(x, y, e) == FAddAligned(x.s, BShl(x.m, x.e - e), y.s, BShl(y.m, y.e - e), e)

\* x + y; an addend more than 60 binary places below the other cannot
\* change the rounded sum
FAdd(x, y) ==
    IF FIsZero(x) THEN y
    ELSE IF FIsZero(y) THEN x
    ELSE IF x.e - y.e > 60 THEN x
    ELSE IF y.e - x.e > 60 THEN y
    ELSE FAddAt(x, y, IF x.e < y.e THEN x.e ELSE y.e)

FSub(x, y) == FAdd(x, FNeg(y))

FMul(x, y) ==
    IF FIsZero(x) \/ FIsZero(y) THEN FZero
    ELSE FRound(x.s * y.s, BMul(x.m, y.m), x.e + y.e, FALSE)

FDivRound(s, e, ge, qr) ==
    FRound(s, IF ge THEN BAdd(qr[1], BShl(<<1>>, 60)) ELSE qr[1], e, qr[2] # <<>>)

FDivAt(x, y, ge) ==
    FDivRound(x.s * y.s, x.e - y.e - 60, ge,
              BDivFrac(IF ge THEN BSub(x.m, y.m) ELSE x.m, y.m))

\* x / y for y # 0: one leading quotient bit and 60 more, the remainder
\* kept as the sticky bit
FDiv(x, y) == IF FIsZero(x) THEN FZero ELSE FDivAt(x, y, BCmp(x.m, y.m) >= 0)

\* (int)x: truncation toward zero, for |x| < 2^31
FTrunc(x) ==
    IF FIsZero(x) THEN 0
    ELSE x.s * BToInt(IF x.e >= 0 THEN BShl(x.m, x.e) ELSE BShr(x.m, -x.e))

fmodAt(x, y, e) ==
    FRound(x.s, BMod(BShl(x.m, x.e - e), BShl(y.m, y.e - e)), e, FALSE)

\* fmod(x, y) for y # 0: x - trunc(x / y) * y computed without rounding
fmod(x, y) ==
    IF FIsZero(x) THEN x ELSE fmodAt(x, y, IF x.e < y.e THEN x.e ELSE y.e)

fabs(x) == FAbs(x)

(***************************************************************************)
(* The per-pixel pipeline.  The source's global constants max_iter,        *)
(* img_width, img_height and center are passed as parameters, so that one  *)
(* model covers the configurations the specifications below draw.          *)
(***************************************************************************)
F2   == FromInt(2)
F4   == FromInt(4)
F60  == FromInt(60)
F100 == FromInt(100)
F255 == FromInt(255)
F1   == FromInt(1)

comp(re, im) == [real |-> re, imag |-> im]

\* a test that lets a magnitude of exactly 2.0 pass
magnitude_at_most_2(z) ==
    FLe(FAdd(FMul(z.real, z.real), FMul(z.imag, z.imag)), FromInt(4))

\* sqrt(z.real * z.real + z.imag * z.imag) < 2.0.  The correctly rounded square
\* root is monotone and sqrt(4.0) = 2.0, and the largest double below 4.0 has
\* a root below the midpoint of 2.0 and its predecessor, so the comparison
\* is that of the radicand with 4.0.
magnitude_below_2(z) ==
    FLt(FAdd(FMul(z.real, z.real), FMul(z.imag, z.imag)), F4)

\* the condition of iterate's while loop
iterate_cond(z, i, max_iter) == i < max_iter /\ magnitude_below_2(z)

\* the body of iterate's while loop: the next z
iterate_body(z, c) ==
    comp(FAdd(FSub(FMul(z.real, z.real), FMul(z.imag, z.imag)), c.real),
         FAdd(FMul(FMul(z.real, z.imag), F2), c.imag))

RECURSIVE iterate_loop(_, _, _, _)
iterate_loop(z, c, i, max_iter) ==
    IF iterate_cond(z, i, max_iter)
    THEN iterate_loop(iterate_body(z, c), c, i + 1, max_iter)
    ELSE i

iterate(c, max_iter) == iterate_loop(c, c, 0, max_iter)

\* one coordinate of map_pixel: span / size * p - span / 2 + center
map_axis(span, size, p, center_axis) ==
    FAdd(FSub(FMul(FDiv(span, FromInt(size)), FromInt(p)), FDiv(span, F2)),
         center_axis)

map_pixel(px, py, zoom, center, img_width, img_height) ==
    comp(map_axis(FDiv(F4, zoom), img_width, px, center.real),
         map_axis(FDiv(F2, zoom), img_height, py, center.imag))

\* the textbook wheel, with [60, 120) and [120, 180) kept apart
hsv_sector_textbook(h, C, X) ==
    IF h >= 0 /\ h < 60 THEN <<C, X, FZero>>
    ELSE IF h >= 60 /\ h < 120 THEN <<X, C, FZero>>
    ELSE IF h >= 120 /\ h < 180 THEN <<FZero, C, X>>
    ELSE IF h >= 180 /\ h < 240 THEN <<FZero, X, C>>
    ELSE IF h >= 240 /\ h < 300 THEN <<X, FZero, C>>
    ELSE <<C, FZero, X>>

\* the sector of the colour wheel hsv_to_rgb picks for h
hsv_sector(h, C, X) ==
    IF h >= 0 /\ h < 60 THEN <<C, X, FZero>>
    ELSE IF h >= 60 /\ h < 180 THEN <<X, C, X>>
    ELSE IF h >= 180 /\ h < 240 THEN <<FZero, X, C>>
    ELSE IF h >= 240 /\ h < 300 THEN <<X, FZero, C>>
    ELSE <<C, FZero, X>>

\* *r = (R + m) * 255.0, the double converted to the int it is stored in
hsv_channel(R, m) == FTrunc(FMul(FAdd(R, m), F255))

hsv_scale(RGB, m) ==
    <<hsv_channel(RGB[1], m), hsv_channel(RGB[2], m), hsv_channel(RGB[3], m)>>

hsv_chroma(h, V, C) ==
    hsv_scale(hsv_sector(h, C,
                  FMul(C, FSub(F1, fabs(FSub(fmod(FDiv(FromInt(h), F60), F2), F1))))),
              FSub(V, C))

hsv_unit(h, S, V) == hsv_chroma(h, V, FMul(S, V))

\* <<r, g, b>> as the ints hsv_to_rgb stores through its pointers
hsv_to_rgb(h, s, v) ==
    hsv_unit(h, FDiv(FromInt(s), F100), FDiv(FromInt(v), F100))

\* the third argument plot_pixel passes to hsv_to_rgb: the double
\* (max_iter - iterations) / (double)max_iter * 100 converted to the int
\* parameter v
pixel_value(iterations, max_iter) ==
    FTrunc(FMul(FDiv(FromInt(max_iter - iterations), FromInt(max_iter)), F100))

\* the r, g, b plot_pixel computes from an iteration count
pixel_rgb(iterations, max_iter) ==
    hsv_to_rgb(iterations % 360, 100, pixel_value(iterations, max_iter))

\* plot_pixel up to its buffer writes: the r, g, b of the thread with flat
\* index i
plot_pixel_rgb(i, zoom, center, img_width, img_height, max_iter) ==
    pixel_rgb(iterate(map_pixel(i % img_width, i \div img_width, zoom,
                                center, img_width, img_height),
                      max_iter),
              max_iter)

\* a byte offset that drops the parentheses of the source's expression
byte_offset_unscaled(px, py, img_width) == 3 * py * img_width + px

\* size_t byte = 3 * (py * img_width + px)
byte_offset(px, py, img_width) == 3 * (py * img_width + px)

\* a block count rounded up instead of down
block_count_ceil(img_width, img_height, threads_per_block) ==
    (img_width * img_height + threads_per_block - 1) \div threads_per_block

\* the number of blocks plot_mandelbrot launches
block_count(img_width, img_height, threads_per_block) ==
    (img_width * img_height) \div threads_per_block

\* int img_count = log(zoom_end / zoom_start) / log(zoom_fact): the largest n
\* with fact^n <= ratio.  That is the value the quotient of the two
\* logarithms truncates to for every ratio and factor the model draws.
RECURSIVE log_floor(_, _, _, _)
log_floor(ratio, fact, p, n) ==
    IF FLe(FMul(p, fact), ratio) THEN log_floor(ratio, fact, FMul(p, fact), n + 1)
    ELSE n

image_count(zoom_start, zoom_end, zoom_fact) ==
    log_floor(FDiv(zoom_end, zoom_start), zoom_fact, F1, 0)

----------------------------------------------------------------------------
\* The program: host loop of main, the kernel threads of plot_pixel, the encoder

\* the sizes drawn: picture width and height, threads per block, the last
\* zoom, max_iter
MaxWidth == 3
MaxHeight == 2
BlockThreads == 2
MaxZoomEnd == 2
SmallMaxIter == 3

\* the launch geometry of the source
threads_per_block_src == 256

\* the content of a byte of managed memory nothing has written yet
Uninit == 0 - 1

\* const struct comp center = { -0.77568377, 0.13646737 }
center_src ==
    comp(FDiv(FromInt(0 - 77568377), FromInt(100000000)),
         FDiv(FromInt(13646737), FromInt(100000000)))

origin == comp(FZero, FZero)

VARIABLES
    img_width, img_height, max_iter, center, threads_per_block,
    zoom_start, zoom_end, zoom_fact,
    cuda,           \* what the CUDA runtime does: "ok", "nomem", "nodevice"
    pc,             \* position of the host thread in main
    buf,            \* the managed buffer, << >> when the allocation failed
    zoom, img_id, img_count,
    pending,        \* flat indices of the kernel threads that have not run yet
    thread_rgb,     \* r, g, b of each thread of the current launch
    stamp,          \* per byte: img_id of the launch that last wrote it
    hits,           \* per byte: number of writes by the current launch
    mem_fault,      \* a thread wrote outside the img_width * img_height * 3 bytes
    frames,         \* the <<img_id, zoom>> handed to stbi_write_jpg so far
    files,          \* img_ids whose file the encoder wrote
    first_failure,  \* img_id of the first encoder failure, Uninit if none
    iter_st, color_st

cfgvars == <<img_width, img_height, max_iter, center, threads_per_block,
             zoom_start, zoom_end, zoom_fact, cuda>>
hostvars == <<pc, zoom, img_id, img_count, frames, files, first_failure>>
devvars == <<buf, pending, thread_rgb, stamp, hits, mem_fault>>
unitvars == <<iter_st, color_st>>
vars == <<cfgvars, hostvars, devvars, unitvars>>

\* the geometries the model draws: the scaled ones, and the 4x4 picture with
\* 50 iterations around the origin under the launch geometry of the source
Geometries ==
    { [w |-> w, h |-> h, t |-> t, m |-> SmallMaxIter, c |-> center_src] :
        w \in 1..MaxWidth, h \in 1..MaxHeight,
        t \in {BlockThreads, threads_per_block_src} }
    \cup { [w |-> 4, h |-> 4, t |-> threads_per_block_src, m |-> 50, c |-> origin] }

IdleUnits ==
    /\ iter_st = [pc |-> "idle"]
    /\ color_st = [pc |-> "idle"]

Init ==
    /\ \E g \in Geometries :
        /\ img_width = g.w
        /\ img_height = g.h
        /\ threads_per_block = g.t
        /\ max_iter = g.m
        /\ center = g.c
    /\ zoom_start = F1
    /\ zoom_fact = F2
    /\ zoom_end \in { FromInt(k) : k \in 1..MaxZoomEnd }
    /\ cuda \in {"ok", "nomem", "nodevice"}
    /\ pc = "start"
    /\ buf = << >>
    /\ zoom = F1
    /\ img_id = 0
    /\ img_count = 0
    /\ pending = {}
    /\ thread_rgb = << >>
    /\ stamp = << >>
    /\ hits = << >>
    /\ mem_fault = FALSE
    /\ frames = << >>
    /\ files = {}
    /\ first_failure = Uninit
    /\ IdleUnits

buffer_bytes == 0 .. (img_width * img_height * 3 - 1)

\* main, up to the loop: cudaMallocManaged, whose status is not looked at,
\* img_id = 0, img_count, zoom = zoom_start
Start ==
    /\ pc = "start"
    /\ buf' = IF cuda = "ok" THEN [b \in buffer_bytes |-> Uninit] ELSE << >>
    /\ stamp' = [b \in DOMAIN buf' |-> Uninit]
    /\ hits' = [b \in DOMAIN buf' |-> 0]
    /\ img_id' = 0
    /\ img_count' = image_count(zoom_start, zoom_end, zoom_fact)
    /\ zoom' = zoom_start
    /\ pc' = "loop"
    /\ UNCHANGED <<cfgvars, unitvars, pending, thread_rgb, mem_fault,
                   frames, files, first_failure>>

\* the loop test and the printf, which divides by img_count: a division by
\* zero is undefined, the process traps or goes on
LoopTest ==
    /\ pc = "loop"
    /\ pc' \in IF ~FLe(zoom, zoom_end) THEN {"done"}
               ELSE IF img_count = 0 THEN {"crashed", "launch"}
               ELSE {"launch"}
    /\ UNCHANGED <<cfgvars, unitvars, devvars, zoom, img_id, img_count,
                   frames, files, first_failure>>

launched_threads ==
    IF cuda = "nodevice" THEN {}
    ELSE 0 .. (block_count(img_width, img_height, threads_per_block)
                 * threads_per_block - 1)

\* plot_mandelbrot up to the launch: the kernel is queued, the host goes on.
\* What a thread computes depends on its index and the kernel arguments
\* only; it is evaluated here, once for each thread
Launch ==
    /\ pc = "launch"
    /\ pending' = launched_threads
    /\ thread_rgb' = [i \in pending' |->
          plot_pixel_rgb(i, zoom, center, img_width, img_height, max_iter)]
    /\ hits' = [b \in DOMAIN hits |-> 0]
    /\ pc' = "sync"
    /\ UNCHANGED <<cfgvars, unitvars, buf, stamp, mem_fault, zoom, img_id,
                   img_count, frames, files, first_failure>>

\* one thread of plot_pixel: its three byte writes, with no bounds check
PlotPixel(i) ==
    /\ i \in pending
    /\ pending' = pending \ {i}
    /\ LET px == i % img_width
           py == i \div img_width
           byte == byte_offset(px, py, img_width)
           w == { byte, byte + 1, byte + 2 }
           val(b) == thread_rgb[i][b - byte + 1] % 256
       IN  /\ buf' = [b \in DOMAIN buf |-> IF b \in w THEN val(b) ELSE buf[b]]
           /\ stamp' = [b \in DOMAIN stamp |-> IF b \in w THEN img_id ELSE stamp[b]]
           /\ hits' = [b \in DOMAIN hits |-> IF b \in w THEN hits[b] + 1 ELSE hits[b]]
           /\ mem_fault' = (mem_fault \/ ~(w \subseteq buffer_bytes))
    /\ UNCHANGED <<cfgvars, unitvars, hostvars, thread_rgb>>

\* a host that does not wait for the kernel
kernel_not_awaited(p) == TRUE

\* cudaDeviceSynchronize returns when the kernel has finished
kernel_finished(p) == p = {}

Synchronize ==
    /\ pc = "sync"
    /\ kernel_finished(pending)
    /\ pc' = "encode"
    /\ UNCHANGED <<cfgvars, unitvars, devvars, zoom, img_id, img_count,
                   frames, files, first_failure>>

\* stbi_write_jpg is entered with buf; reading through the pointer a failed
\* allocation left is undefined, the process traps or goes on
EncodeCall ==
    /\ pc = "encode"
    /\ frames' = Append(frames, <<img_id, zoom>>)
    /\ pc' \in IF cuda = "ok" THEN {"encoding"} ELSE {"crashed", "encoding"}
    /\ UNCHANGED <<cfgvars, unitvars, devvars, zoom, img_id, img_count,
                   files, first_failure>>

\* stbi_write_jpg returns, its result is dropped; img_id++, zoom *= zoom_fact
EncodeReturn ==
    /\ pc = "encoding"
    /\ \E written \in BOOLEAN :
        /\ files' = IF written THEN files \cup {img_id} ELSE files
        /\ first_failure' = IF ~written /\ first_failure = Uninit THEN img_id
                            ELSE first_failure
    /\ img_id' = img_id + 1
    /\ zoom' = FMul(zoom, zoom_fact)
    /\ pc' = "loop"
    /\ UNCHANGED <<cfgvars, unitvars, devvars, img_count, frames>>

Next ==
    \/ Start
    \/ LoopTest
    \/ Launch
    \/ \E i \in pending : PlotPixel(i)
    \/ Synchronize
    \/ EncodeCall
    \/ EncodeReturn

Spec == Init /\ [][Next]_vars

----------------------------------------------------------------------------
\* Properties of the renderer

pixels == 0 .. (img_width * img_height - 1)

pixel_bytes(i) ==
    LET byte == byte_offset(i % img_width, i \div img_width, img_width)
    IN  { byte, byte + 1, byte + 2 }

\* the stored colour of pixel i is <<r, g, b>>
pixel_holds(i, rgb) ==
    LET byte == byte_offset(i % img_width, i \div img_width, img_width)
    IN  \A k \in 0..2 : byte + k \in DOMAIN buf /\ buf[byte + k] = rgb[k + 1] % 256

\* C1: with the allocation in place, when plot_mandelbrot has returned every
\* byte of every pixel of the picture was written by the launch for the
\* current frame
C1_EveryPixelWritten ==
    (pc = "encode" /\ cuda = "ok") =>
        \A i \in pixels : \A b \in pixel_bytes(i) : stamp[b] = img_id

\* C2: the encoder is entered and runs only when no thread of the kernel is
\* left, and threads are left only between the launch and the return of
\* cudaDeviceSynchronize; a byte written for frame N + 1 is written after
\* the encoder call of frame N has returned
C2_PhasesNeverOverlap ==
    /\ pc \in {"encode", "encoding"} => pending = {}
    /\ pending # {} => pc = "sync"
    /\ \A b \in DOMAIN stamp : stamp[b] <= img_id

C2_Witness ==
    /\ pc = "encoding"
    /\ img_id = 1
    /\ \E b \in DOMAIN stamp : stamp[b] = 1
    /\ Cardinality(DOMAIN thread_rgb) >= 4

\* the threads of the current launch that write byte b
writers(b) == { i \in DOMAIN thread_rgb : b \in pixel_bytes(i) }

\* the greatest element of a non-empty set of indices
last_of(S) == CHOOSE i \in S : \A j \in S : j <= i

\* what one thread running the indices in increasing order leaves in byte b
sequential_byte(b) ==
    LET i == last_of(writers(b))
    IN  thread_rgb[i][b - byte_offset(i % img_width, i \div img_width, img_width) + 1] % 256

\* C3: no byte is written twice by one launch, and when the kernel has
\* finished every byte some thread writes holds what the single-threaded run
\* over the same indices leaves there, every other byte being untouched
C3_DisjointWrites ==
    /\ \A b \in DOMAIN hits : hits[b] <= 1
    /\ \A i \in DOMAIN thread_rgb : \A j \in DOMAIN thread_rgb :
          i # j => pixel_bytes(i) \cap pixel_bytes(j) = {}
    /\ (pc = "encode" /\ cuda = "ok") =>
          \A b \in DOMAIN buf :
              IF writers(b) = {} THEN hits[b] = 0
              ELSE hits[b] = 1 /\ buf[b] = sequential_byte(b)

C3_Witness ==
    /\ pc = "encode"
    /\ cuda = "ok"
    /\ Cardinality(DOMAIN thread_rgb) >= 4
    /\ \A i \in DOMAIN thread_rgb : \A b \in pixel_bytes(i) : hits[b] = 1

\* C10: every thread of a launch has a flat index below img_width * img_height
\* and no thread writes at an offset outside the img_width * img_height * 3
\* bytes
C10_IndicesInBounds ==
    /\ pending \subseteq pixels
    /\ DOMAIN thread_rgb \subseteq pixels
    /\ \A i \in DOMAIN thread_rgb : pixel_bytes(i) \subseteq buffer_bytes
    /\ ~mem_fault

C10_Witness ==
    /\ pc = "encode"
    /\ cuda = "ok"
    /\ threads_per_block = BlockThreads
    /\ (img_width * img_height) % threads_per_block # 0
    /\ DOMAIN thread_rgb # {}
    /\ \A i \in DOMAIN thread_rgb : \A b \in pixel_bytes(i) : stamp[b] = img_id

\* the frames of the loop: ids from n, zooms z, z * zoom_fact, ... while
\* z <= zoom_end
RECURSIVE frames_from(_, _)
frames_from(n, z) ==
    IF FLe(z, zoom_end) THEN <<<<n, z>>>> \o frames_from(n + 1, FMul(z, zoom_fact))
    ELSE << >>

\* C4: with the allocation in place, a run that has ended has handed the
\* encoder one frame for each k with zoom_start * zoom_fact^k <= zoom_end, in
\* that order and numbered 0, 1, 2, ..., whatever img_count is
C4_FramesFollowLoop ==
    (pc \in {"done", "crashed"} /\ cuda = "ok") =>
        frames = frames_from(0, zoom_start)

\* C5: once the encoder has failed for a frame, no later frame is
\* dispatched or encoded
C5_EncoderFailureFatal ==
    first_failure # Uninit =>
        ~(pc \in {"sync", "encode", "encoding"} /\ img_id > first_failure)

\* C6: when the allocation fails or there is no device, no frame is
\* dispatched or handed to the encoder and no file is written
C6_DeviceFailureFatal ==
    cuda # "ok" =>
        /\ pc \notin {"sync", "encode", "encoding"}
        /\ frames = << >>
        /\ files = {}

\* the iteration count of pixel (px, py)
pixel_count(px, py) ==
    iterate(map_pixel(px, py, zoom, center, img_width, img_height), max_iter)

min_count ==
    CHOOSE n \in 0..max_iter :
        /\ \E i \in pixels : pixel_count(i % img_width, i \div img_width) = n
        /\ \A i \in pixels : pixel_count(i % img_width, i \div img_width) >= n

\* C9: when plot_mandelbrot has returned for the first frame of the 4x4
\* picture with max_iter = 50 around the origin, the four centre pixels hold
\* the colour of the count max_iter and the four corners that of the least
\* count of the picture
C9_CentreAndCorners ==
    (/\ pc = "encode" /\ cuda = "ok" /\ img_id = 0
     /\ img_width = 4 /\ img_height = 4 /\ max_iter = 50 /\ center = origin) =>
        /\ \A px \in {1, 2} : \A py \in {1, 2} :
              pixel_holds(py * img_width + px, pixel_rgb(max_iter, max_iter))
        /\ \A px \in {0, 3} : \A py \in {0, 3} :
              pixel_holds(py * img_width + px, pixel_rgb(min_count, max_iter))

----------------------------------------------------------------------------
\* iterate, one pass of its loop at a time

MaxGrid == 4
MaxIterations == 5

max_iter_src == 2048

\* the host and the device at rest
HostOff ==
    /\ img_width = 1 /\ img_height = 1 /\ max_iter = max_iter_src
    /\ center = center_src /\ threads_per_block = threads_per_block_src
    /\ zoom_start = F1 /\ zoom_end = F1 /\ zoom_fact = F2
    /\ cuda = "ok" /\ pc = "off" /\ buf = << >>
    /\ zoom = F1 /\ img_id = 0 /\ img_count = 0
    /\ pending = {} /\ thread_rgb = << >> /\ stamp = << >> /\ hits = << >>
    /\ mem_fault = FALSE /\ frames = << >> /\ files = {}
    /\ first_failure = Uninit

\* the points k / 2 + (l / 2) i
Grid ==
    { comp(FDiv(FromInt(k), F2), FDiv(FromInt(l), F2)) :
        k \in (0 - MaxGrid)..MaxGrid, l \in (0 - MaxGrid)..MaxGrid }

\* iterate is entered: z = c, i = 0.  orbit records the values z takes
InitIter ==
    /\ HostOff
    /\ color_st = [pc |-> "idle"]
    /\ \E c \in Grid, n \in 1..MaxIterations :
          iter_st = [pc |-> "loop", c |-> c, max_iter |-> n, z |-> c, i |-> 0,
                     orbit |-> <<c>>]

\* one pass of the while loop
IterStep ==
    /\ iter_st.pc = "loop"
    /\ iterate_cond(iter_st.z, iter_st.i, iter_st.max_iter)
    /\ iter_st' = [iter_st EXCEPT
                     !.z = iterate_body(iter_st.z, iter_st.c),
                     !.i = iter_st.i + 1,
                     !.orbit = Append(iter_st.orbit,
                                      iterate_body(iter_st.z, iter_st.c))]
    /\ UNCHANGED <<cfgvars, hostvars, devvars, color_st>>

\* the loop is left, *iterations = i
IterReturn ==
    /\ iter_st.pc = "loop"
    /\ ~iterate_cond(iter_st.z, iter_st.i, iter_st.max_iter)
    /\ iter_st' = [iter_st EXCEPT !.pc = "returned"]
    /\ UNCHANGED <<cfgvars, hostvars, devvars, color_st>>

NextIter == IterStep \/ IterReturn

SpecIter == InitIter /\ [][NextIter]_vars

\* z * z + c for complex z and c
square_plus(z, c) ==
    comp(FAdd(FSub(FMul(z.real, z.real), FMul(z.imag, z.imag)), c.real),
         FAdd(FMul(F2, FMul(z.real, z.imag)), c.imag))

\* |z| >= 2.0
escaped(z) == FLe(F4, FAdd(FMul(z.real, z.real), FMul(z.imag, z.imag)))

\* the recorded values are the orbit z_0 = c, z_{k+1} = z_k^2 + c
is_orbit(o, c) ==
    /\ o[1] = c
    /\ \A k \in 1..(Len(o) - 1) : o[k + 1] = square_plus(o[k], c)

\* the indices n in 0..max_iter with |z_n| >= 2.0 among those recorded
escapes(o) == { n \in 0..(Len(o) - 1) : escaped(o[n + 1]) }

\* C7: the values z takes are the orbit of c, and the count iterate returns
\* is in 0..max_iter, is the least n with |z_n| >= 2.0 when there is one
\* below max_iter and max_iter otherwise; it is 0 for 2, 1 for 1, max_iter
\* for 0, and it is what the operator iterate computes
C7_LeastEscape ==
    /\ is_orbit(iter_st.orbit, iter_st.c)
    /\ Len(iter_st.orbit) = iter_st.i + 1
    /\ iter_st.z = iter_st.orbit[iter_st.i + 1]
    /\ iter_st.pc = "returned" =>
         /\ iter_st.i \in 0..iter_st.max_iter
         /\ \A n \in escapes(iter_st.orbit) : n >= iter_st.i
         /\ iter_st.i < iter_st.max_iter => iter_st.i \in escapes(iter_st.orbit)
         /\ iter_st.c = comp(F2, FZero) => iter_st.i = 0
         /\ iter_st.c = comp(F1, FZero) => iter_st.i = 1
         /\ iter_st.c = comp(FZero, FZero) => iter_st.i = iter_st.max_iter
         /\ iterate(iter_st.c, iter_st.max_iter) = iter_st.i

C7_Witness ==
    /\ iter_st.pc = "returned"
    /\ iter_st.c = comp(F1, FZero)
    /\ iter_st.max_iter = MaxIterations
    /\ iter_st.i = 1
    /\ iter_st.z = comp(F2, FZero)

----------------------------------------------------------------------------
\* the colour plot_pixel derives from an iteration count

\* the values of max_iter the colours are checked for: the source's, and
\* those of the worked examples
ColorMaxIters == {max_iter_src, 100, 50}

InitColor ==
    /\ HostOff
    /\ iter_st = [pc |-> "idle"]
    /\ \E m \in ColorMaxIters : \E n \in 0..m :
          color_st = [pc |-> "call", iterations |-> n, max_iter |-> m]

\* plot_pixel's call of hsv_to_rgb
ColorPixel ==
    /\ color_st.pc = "call"
    /\ color_st' = [pc |-> "done", iterations |-> color_st.iterations,
                    max_iter |-> color_st.max_iter,
                    rgb |-> pixel_rgb(color_st.iterations, color_st.max_iter)]
    /\ UNCHANGED <<cfgvars, hostvars, devvars, iter_st>>

NextColor == ColorPixel

SpecColor == InitColor /\ [][NextColor]_vars

\* (max_iter - count) / max_iter * 100
value_of(count, m) == FMul(FDiv(FromInt(m - count), FromInt(m)), F100)

\* the conversion of a hue in degrees, a saturation and a value in percent:
\* C = S/100 * V/100, X = C * (1 - |(h/60 mod 2) - 1|), m = V/100 - C, the
\* sectors [0,60), [60,180), [180,240), [240,300), [300,360), and each
\* channel (sector value + m) * 255 truncated
wheel(h, C, X) ==
    IF h < 60 THEN <<C, X, FZero>>
    ELSE IF h < 180 THEN <<X, C, X>>
    ELSE IF h < 240 THEN <<FZero, X, C>>
    ELSE IF h < 300 THEN <<X, FZero, C>>
    ELSE <<C, FZero, X>>

ramp(h) == FSub(F1, FAbs(FSub(fmod(FDiv(FromInt(h), F60), F2), F1)))

channels(w, m) ==
    [k \in 1..3 |-> FTrunc(FMul(FAdd(w[k], m), F255))]

colour_at(h, C, V) == channels(wheel(h, C, FMul(C, ramp(h))), FSub(V, C))

colour_of(h, S, V) ==
    colour_at(h, FMul(FDiv(S, F100), FDiv(V, F100)), FDiv(V, F100))

\* C8 as stated: the colour is the conversion of hue = count mod 360,
\* saturation 100 and the value (max_iter - count) / max_iter * 100 as it is
C8_ExactValue ==
    color_st.pc = "done" =>
        color_st.rgb = colour_of(color_st.iterations % 360, F100,
                                 value_of(color_st.iterations, color_st.max_iter))

\* C8: the colour is the conversion of hue = count mod 360, saturation 100
\* and the value (max_iter - count) / max_iter * 100 truncated to an
\* integer; each channel is in 0..255, and the count 0 gives (255, 0, 0)
C8_TruncatedValue ==
    color_st.pc = "done" =>
        /\ color_st.rgb =
             colour_of(color_st.iterations % 360, F100,
                       FromInt(FTrunc(value_of(color_st.iterations,
                                               color_st.max_iter))))
        /\ \A k \in 1..3 : color_st.rgb[k] \in 0..255
        /\ color_st.iterations = 0 => color_st.rgb = <<255, 0, 0>>

C8_Witness ==
    /\ color_st.pc = "done"
    /\ color_st.max_iter = max_iter_src
    /\ color_st.iterations = 1
    /\ color_st.rgb = <<252, 4, 0>>

====
